---- MODULE Spec2Model ----
(***************************************************************************)
(* PROXY protocol header decoding (v1 text form, v2 binary form, and the   *)
(* auto-detecting mode), the ProxyStream connection wrapper and the        *)
(* ProxyListener listener wrapper of hyper-networklistener-proxy.          *)
(*                                                                         *)
(* Bytes are naturals 0..255, a connection's input is a finite sequence of *)
(* bytes followed by end-of-file, and a reader is a pair (data, start)     *)
(* where start is the number of bytes already consumed.                    *)
(***************************************************************************)
EXTENDS Integers, Sequences, FiniteSets, TLC

\* ------------------------------------------------------------------------
\* Program constants
\* ------------------------------------------------------------------------

\* read_to_crlf: for i in 0..107, and the [0u8; 107] buffers of its callers
V1BufLen == 107

\* read_proxy_protocol_v2: let mut header_buf = [0u8; 16]
V2HeaderLen == 16

\* read_proxy_protocol_v2_after_first_byte: let mut addr_buf = [0u8; 216]
V2MaxAddrLen == 216

CR == 13
LF == 10
SP == 32
LetterP == 80

\* b"\x0D\x0A\x0D\x0A\x00\x0D\x0A\x51\x55\x49\x54\x0A"
V2Magic == <<13, 10, 13, 10, 0, 13, 10, 81, 85, 73, 84, 10>>

\* "ROXY", "TCP4", "TCP6", "UNKNOWN"
LitROXY == <<82, 79, 88, 89>>
LitTCP4 == <<84, 67, 80, 52>>
LitTCP6 == <<84, 67, 80, 54>>
LitUNKNOWN == <<85, 78, 75, 78, 79, 87, 78>>

\* ------------------------------------------------------------------------
\* Values: Option<SocketAddr>, ProxyProtocolHeader, Result
\* ------------------------------------------------------------------------

NoIp == [fam |-> "None", parts |-> <<>>]

V4(octets) == [fam |-> "V4", parts |-> octets]

V6(segments) == [fam |-> "V6", parts |-> segments]

NoneAddr == [some |-> FALSE, ip |-> NoIp, port |-> 0]

SomeAddr(ip, port) == [some |-> TRUE, ip |-> ip, port |-> port]

NoHeader ==
    [version |-> 0, proto |-> "None", command |-> "None",
     source_addr |-> NoneAddr, dest_addr |-> NoneAddr]

\* ProxyProtocolHeader::new
HeaderNew(version, proto, source_addr, dest_addr) ==
    [version |-> version, proto |-> proto, command |-> "Proxy",
     source_addr |-> source_addr, dest_addr |-> dest_addr]

\* ProxyProtocolHeader::new_with_command
HeaderNewWithCommand(version, proto, command, source_addr, dest_addr) ==
    [version |-> version, proto |-> proto, command |-> command,
     source_addr |-> source_addr, dest_addr |-> dest_addr]

\* a header without addresses that keeps Proto::Unix as its protocol
HeaderNewUnknown_unix(version) ==
    [version |-> version, proto |-> "Unix", command |-> "Unspec",
     source_addr |-> NoneAddr, dest_addr |-> NoneAddr]

\* ProxyProtocolHeader::new_unknown
HeaderNewUnknown(version) ==
    [version |-> version, proto |-> "Unknown", command |-> "Unspec",
     source_addr |-> NoneAddr, dest_addr |-> NoneAddr]

\* A decode outcome: kind is "Ok", "Err" or "Panic"; used is the number of
\* bytes the call took from the reader.
ROk(h, used) == [kind |-> "Ok", error |-> "", header |-> h, used |-> used]

RErr(e, used) == [kind |-> "Err", error |-> e, header |-> NoHeader, used |-> used]

RPanic(used) == [kind |-> "Panic", error |-> "", header |-> NoHeader, used |-> used]

\* ------------------------------------------------------------------------
\* Sequence helpers
\* ------------------------------------------------------------------------

Min(a, b) == IF a < b THEN a ELSE b

\* the bytes data[from+1 .. from+n] (a Rust slice data[from .. from+n])
Slice(data, from, n) == [k \in 1..n |-> data[from + k]]

\* Read::read_exact on a connection: all n bytes, or an UnexpectedEof error
\* after taking whatever was left.
ReadExactOk(data, start, n) == start + n <= Len(data)

ReadExactUsed(data, start, n) == Min(n, Len(data) - start)

\* ------------------------------------------------------------------------
\* Text helpers of the v1 form (std::str::from_utf8, slice::split,
\* u16::from_str, IpAddr::from_str)
\* ------------------------------------------------------------------------

IsCont(b) == b >= 128 /\ b <= 191

\* length of the UTF-8 sequence that lead byte b starts, 0 if b starts none
LeadLen(b) ==
    IF b >= 194 /\ b <= 223 THEN 2
    ELSE IF b >= 224 /\ b <= 239 THEN 3
    ELSE IF b >= 240 /\ b <= 244 THEN 4
    ELSE 0

\* the byte c may follow the lead byte b
SecondOk(b, c) ==
    /\ IsCont(c)
    /\ (b = 224 => c >= 160)
    /\ (b = 237 => c <= 159)
    /\ (b = 240 => c >= 144)
    /\ (b = 244 => c <= 143)

\* a well-formed multi-byte sequence starts at f[i]
SequenceAt(f, i) ==
    /\ LeadLen(f[i]) > 0
    /\ i + LeadLen(f[i]) - 1 <= Len(f)
    /\ SecondOk(f[i], f[i + 1])
    /\ \A k \in 2..(LeadLen(f[i]) - 1) : IsCont(f[i + k])

\* f[i] is a continuation byte inside the sequence of an earlier lead byte
InsideSequence(f, i) ==
    /\ IsCont(f[i])
    /\ \E j \in 1..3 : /\ i - j >= 1
                       /\ LeadLen(f[i - j]) > j
                       /\ \A m \in 1..(j - 1) : IsCont(f[i - m])

\* std::str::from_utf8(f).is_ok(): f is a run of ASCII bytes and well-formed
\* multi-byte sequences
Utf8Valid(f) ==
    \A i \in 1..Len(f) : f[i] < 128 \/ SequenceAt(f, i) \/ InsideSequence(f, i)

\* buf.split(|&f| f == 32u8): the fields between spaces, at least one
SplitFields(buf) ==
    LET seps == {i \in 1..Len(buf) : buf[i] = SP}
        n == Cardinality(seps)
        SepAt(k) == IF k = 0 THEN 0
                    ELSE IF k = n + 1 THEN Len(buf) + 1
                    ELSE CHOOSE i \in seps : Cardinality({j \in seps : j < i}) = k - 1
    IN [k \in 1..(n + 1) |-> Slice(buf, SepAt(k - 1), SepAt(k) - SepAt(k - 1) - 1)]

\* char::to_digit(radix): the digit value of byte b, or -1
DigitVal(b, radix) ==
    IF b >= 48 /\ b <= 57 THEN b - 48
    ELSE IF radix = 16 /\ b >= 97 /\ b <= 102 THEN b - 87
    ELSE IF radix = 16 /\ b >= 65 /\ b <= 70 THEN b - 55
    ELSE -1

\* number of consecutive radix digits of s from position p
RECURSIVE DigitRun(_, _, _)
DigitRun(s, p, radix) ==
    IF p > Len(s) \/ DigitVal(s[p], radix) < 0 THEN 0
    ELSE 1 + DigitRun(s, p + 1, radix)

\* value of the n digits of s from position p
RECURSIVE DigitsValue(_, _, _, _)
DigitsValue(s, p, n, radix) ==
    IF n = 0 THEN 0
    ELSE DigitsValue(s, p, n - 1, radix) * radix + DigitVal(s[p + n - 1], radix)

\* <u16 as FromStr>::from_str: an optional '+', then decimal digits whose
\* value fits 16 bits; -1 stands for Err(ParseIntError)
ParseU16(s) ==
    LET Fits(v) == IF v > 65535 THEN -1 ELSE v
        Value(p, n, z) ==
            IF n - z > 5 THEN -1 ELSE Fits(DigitsValue(s, p + z, n - z, 10))
        Digits(p, n) ==
            IF Len(s) = 0 \/ n = 0 \/ p + n - 1 # Len(s) THEN -1
            ELSE Value(p, n, CHOOSE k \in 0..n :
                                 /\ \A j \in 0..(k - 1) : s[p + j] = 48
                                 /\ (k < n => s[p + k] # 48))
        Signed(p) == Digits(p, DigitRun(s, p, 10))
    IN Signed(IF Len(s) > 1 /\ s[1] = 43 THEN 2 ELSE 1)

NumFail == [ok |-> FALSE, val |-> 0, p |-> 0]

\* Parser::read_number(radix, Some(max_digits), allow_zero_prefix) for a
\* type whose largest value is max: all the digits at p, read greedily
ReadNumber(s, p, radix, max_digits, allow_zero_prefix, max) ==
    LET Checked(v, n) ==
            IF v > max THEN NumFail ELSE [ok |-> TRUE, val |-> v, p |-> p + n]
        Digits(n) ==
            IF n = 0 \/ n > max_digits THEN NumFail
            ELSE IF ~allow_zero_prefix /\ s[p] = 48 /\ n > 1 THEN NumFail
            ELSE Checked(DigitsValue(s, p, n, radix), n)
    IN Digits(DigitRun(s, p, radix))

Ipv4Fail == [ok |-> FALSE, parts |-> <<>>, p |-> 0]

\* Parser::read_ipv4_addr: four decimal octets separated by '.'
RECURSIVE ReadIpv4Groups(_, _, _, _)
ReadIpv4Groups(s, p, i, acc) ==
    IF i = 4 THEN [ok |-> TRUE, parts |-> acc, p |-> p]
    ELSE IF i > 0 /\ ~(p <= Len(s) /\ s[p] = 46) THEN Ipv4Fail
    ELSE LET Octet(g) ==
                 IF g.ok THEN ReadIpv4Groups(s, g.p, i + 1, Append(acc, g.val))
                 ELSE Ipv4Fail
         IN Octet(ReadNumber(s, IF i > 0 THEN p + 1 ELSE p, 10, 3, FALSE, 255))

ReadIpv4(s, p) == ReadIpv4Groups(s, p, 0, <<>>)

\* read_groups of Parser::read_ipv6_addr: up to limit 16-bit groups
\* separated by ':', the last two of which may be an embedded IPv4 address
RECURSIVE ReadGroups(_, _, _, _, _)
ReadGroups(s, p, limit, i, acc) ==
    IF i >= limit THEN [groups |-> acc, p |-> p, ipv4 |-> FALSE]
    ELSE LET Group(g) ==
                 IF g.ok THEN ReadGroups(s, g.p, limit, i + 1, Append(acc, g.val))
                 ELSE [groups |-> acc, p |-> p, ipv4 |-> FALSE]
             Either(sepOk, q, v4) ==
                 IF v4.ok
                 THEN [groups |-> acc \o <<v4.parts[1] * 256 + v4.parts[2],
                                           v4.parts[3] * 256 + v4.parts[4]>>,
                       p |-> v4.p, ipv4 |-> TRUE]
                 ELSE Group(IF sepOk THEN ReadNumber(s, q, 16, 4, TRUE, 65535)
                            ELSE NumFail)
             At(sepOk, q) ==
                 Either(sepOk, q,
                        IF i < limit - 1 /\ sepOk THEN ReadIpv4(s, q) ELSE Ipv4Fail)
         IN At(i = 0 \/ (p <= Len(s) /\ s[p] = 58), IF i = 0 THEN p ELSE p + 1)

Ipv6Fail == [ok |-> FALSE, parts |-> <<>>, p |-> 0]

\* Parser::read_ipv6_addr: eight groups, or head "::" tail
ReadIpv6(s, p) ==
    LET Gap(head, tail, hs, ts) ==
            [ok |-> TRUE,
             parts |-> head.groups \o [k \in 1..(8 - hs - ts) |-> 0] \o tail.groups,
             p |-> tail.p]
        WithTail(head, hs, tail) == Gap(head, tail, hs, Len(tail.groups))
        Leading(head, hs) ==
            IF hs = 8 THEN [ok |-> TRUE, parts |-> head.groups, p |-> head.p]
            ELSE IF head.ipv4 THEN Ipv6Fail
            ELSE IF ~(head.p + 1 <= Len(s) /\ s[head.p] = 58 /\ s[head.p + 1] = 58)
                 THEN Ipv6Fail
            ELSE WithTail(head, hs, ReadGroups(s, head.p + 2, 7 - hs, 0, <<>>))
        Groups(head) == Leading(head, Len(head.groups))
    IN Groups(ReadGroups(s, p, 8, 0, <<>>))

\* <IpAddr as FromStr>::from_str: an IPv4 address, else an IPv6 address,
\* spanning the whole field; NoIp stands for Err(AddrParseError)
ParseIpAddr(s) ==
    LET Pick(a4, a6) ==
            IF a4.ok THEN (IF a4.p = Len(s) + 1 THEN V4(a4.parts) ELSE NoIp)
            ELSE IF a6.ok /\ a6.p = Len(s) + 1 THEN V6(a6.parts)
            ELSE NoIp
    IN Pick(ReadIpv4(s, 1), ReadIpv6(s, 1))

\* ------------------------------------------------------------------------
\* The v1 (text) form
\* ------------------------------------------------------------------------

\* the test of read_to_crlf's loop at iteration i, over the reader
\* (data, start): buf[k] is data[start + k + 1]
CrlfAt(data, start, i) == i > 1 /\ data[start + i] = CR /\ data[start + i + 1] = LF

\* the iterations of "for i in 0..107" at which the loop is left: by the ?
\* of a read_exact that finds no byte, or by the break
LoopExits(data, start) ==
    LET avail == Len(data) - start
    IN {i \in 0..Min(V1BufLen - 1, avail) : i >= avail \/ CrlfAt(data, start, i)}

\* read_to_crlf(r, buf): err is "" on Ok(end_idx); used counts the bytes read
read_to_crlf(data, start) ==
    LET Left(i) ==
            IF i >= Len(data) - start THEN [err |-> "Io", end_idx |-> 0, used |-> i]
            ELSE [err |-> "", end_idx |-> i - 1, used |-> i + 1]
        Loop(exits) ==
            IF exits = {} THEN [err |-> "MissingCrlf", end_idx |-> 0, used |-> V1BufLen]
            ELSE Left(CHOOSE e \in exits : \A o \in exits : e <= o)
    IN Loop(LoopExits(data, start))

\* fields.next().ok_or(MissingField)? taking the field as text without
\* str::from_utf8
FieldError_unchecked(fields, k) ==
    IF k > Len(fields) THEN "MissingField" ELSE ""

\* fields.next().ok_or(MissingField)??: "" when field k exists and is text
FieldError(fields, k) ==
    IF k > Len(fields) THEN "MissingField"
    ELSE IF ~Utf8Valid(fields[k]) THEN "Utf8"
    ELSE ""

\* RErr(e, used) if e is an error, else the continuation next
OrElse(e, used, next) == IF e # "" THEN RErr(e, used) ELSE next

\* the address fields read with the two ports handed to the other address
ParseV1Addresses_crossed(fields, proto, used) ==
    LET DestPort(src, dst, sp, dp) ==
            IF dp < 0 THEN RErr("BadDestPort", used)
            ELSE ROk(HeaderNew(1, proto, SomeAddr(src, dp), SomeAddr(dst, sp)), used)
        SourcePort(src, dst, sp) ==
            IF sp < 0 THEN RErr("BadSourcePort", used)
            ELSE OrElse(FieldError(fields, 6), used,
                        DestPort(src, dst, sp, ParseU16(fields[6])))
        DestAddress(src, dst) ==
            IF dst = NoIp THEN RErr("BadDestAddress", used)
            ELSE OrElse(FieldError(fields, 5), used,
                        SourcePort(src, dst, ParseU16(fields[5])))
        SourceAddress(src) ==
            IF src = NoIp THEN RErr("BadSourceAddress", used)
            ELSE OrElse(FieldError(fields, 4), used,
                        DestAddress(src, ParseIpAddr(fields[4])))
    IN OrElse(FieldError(fields, 3), used, SourceAddress(ParseIpAddr(fields[3])))

\* the part of parse_proxy_protocol_v1_after_first_byte after the protocol
\* field: source address, destination address, source port, destination port
ParseV1Addresses(fields, proto, used) ==
    LET DestPort(src, dst, sp, dp) ==
            IF dp < 0 THEN RErr("BadDestPort", used)
            ELSE ROk(HeaderNew(1, proto, SomeAddr(src, sp), SomeAddr(dst, dp)), used)
        SourcePort(src, dst, sp) ==
            IF sp < 0 THEN RErr("BadSourcePort", used)
            ELSE OrElse(FieldError(fields, 6), used,
                        DestPort(src, dst, sp, ParseU16(fields[6])))
        DestAddress(src, dst) ==
            IF dst = NoIp THEN RErr("BadDestAddress", used)
            ELSE OrElse(FieldError(fields, 5), used,
                        SourcePort(src, dst, ParseU16(fields[5])))
        SourceAddress(src) ==
            IF src = NoIp THEN RErr("BadSourceAddress", used)
            ELSE OrElse(FieldError(fields, 4), used,
                        DestAddress(src, ParseIpAddr(fields[4])))
    IN OrElse(FieldError(fields, 3), used, SourceAddress(ParseIpAddr(fields[3])))

\* parse_proxy_protocol_v1_after_first_byte(buf); used is what the caller
\* has taken from the reader
parse_proxy_protocol_v1_after_first_byte(buf, used) ==
    LET Proto(fields) ==
            IF fields[2] = LitUNKNOWN THEN ROk(HeaderNewUnknown(1), used)
            ELSE IF fields[2] \in {LitTCP4, LitTCP6}
                 THEN ParseV1Addresses(fields,
                                       IF fields[2] = LitTCP4 THEN "Tcp4" ELSE "Tcp6",
                                       used)
            ELSE RErr("MissingLiteral", used)
        Fields(fields) ==
            IF ~(Utf8Valid(fields[1]) /\ fields[1] = LitROXY)
            THEN RErr("MissingLiteral", used)
            ELSE OrElse(FieldError(fields, 2), used, Proto(fields))
    IN Fields(SplitFields(buf))

\* read_proxy_protocol_v1 naming a wrong first byte as read_proxy_protocol_any
\* does
read_proxy_protocol_v1_marker(data, start) ==
    LET Text(c) ==
            IF c.err # "" THEN RErr(c.err, c.used)
            ELSE IF data[start + 1] # LetterP THEN RErr("MissingFirstByte", c.used)
            ELSE parse_proxy_protocol_v1_after_first_byte(
                     Slice(data, start + 1, c.end_idx - 1), c.used)
    IN Text(read_to_crlf(data, start))

\* read_proxy_protocol_v1(r) for the reader (data, start)
read_proxy_protocol_v1(data, start) ==
    LET Text(c) ==
            IF c.err # "" THEN RErr(c.err, c.used)
            ELSE IF data[start + 1] # LetterP THEN RErr("MissingLiteral", c.used)
            ELSE parse_proxy_protocol_v1_after_first_byte(
                     Slice(data, start + 1, c.end_idx - 1), c.used)
    IN Text(read_to_crlf(data, start))

\* ------------------------------------------------------------------------
\* The v2 (binary) form
\* ------------------------------------------------------------------------

\* NetworkEndian::read_u16(buf): the first two bytes of buf, big-endian
ReadU16(buf) == buf[1] * 256 + buf[2]

\* Ipv4Addr::from(NetworkEndian::read_u32(buf)): the four octets of buf
ReadIpv4Octets(buf) == <<buf[1], buf[2], buf[3], buf[4]>>

\* slice[a..b] of a 0-based Rust slice, as a 1-based sequence
Sub(slice, a, b) == [k \in 1..(b - a) |-> slice[a + k]]

\* slice_to_ipv6addr(slice): the eight segments handed to Ipv6Addr::new
slice_to_ipv6addr(slice) ==
    LET o1 == ReadU16(Sub(slice, 0, 2))
        o2 == ReadU16(Sub(slice, 2, 4))
        o3 == ReadU16(Sub(slice, 4, 6))
        o4 == ReadU16(Sub(slice, 6, 8))
        o5 == ReadU16(Sub(slice, 8, 12))
        o6 == ReadU16(Sub(slice, 8, 12))
        o7 == ReadU16(Sub(slice, 12, 14))
        o8 == ReadU16(Sub(slice, 14, 16))
    IN <<o1, o2, o3, o4, o5, o6, o7, o8>>

\* header_buf[12] & 0x0f => Command
V2Command(b) ==
    IF b % 16 = 0 THEN "Local" ELSE IF b % 16 = 1 THEN "Proxy" ELSE "Invalid"

\* (header_buf[13] & 0xf0) >> 4 => AddressFamily
V2Family(b) ==
    CASE b \div 16 = 0 -> "Unspec"
      [] b \div 16 = 1 -> "Inet"
      [] b \div 16 = 2 -> "Inet6"
      [] b \div 16 = 3 -> "Unix"
      [] OTHER -> "Invalid"

\* header_buf[13] & 0x0f => TransportFamily
V2Transport(b) ==
    CASE b % 16 = 0 -> "Unspec"
      [] b % 16 = 1 -> "Stream"
      [] b % 16 = 2 -> "Dgram"
      [] OTHER -> "Invalid"

\* the match on af of read_proxy_protocol_v2_after_first_byte and what
\* follows it: addr_buf is the address block, of the declared length; a
\* slice of addr_buf that ends past that length panics
V2Addresses(addr_buf, af, transport, command, used) ==
    LET n == Len(addr_buf)
    IN CASE af = "Inet" ->
              IF n < 4 \/ n < 8 \/ n < 10 \/ n < 12 THEN RPanic(used)
              ELSE IF transport # "Stream" THEN RErr("InvalidProtocol", used)
              ELSE ROk(HeaderNewWithCommand(2, "Tcp4", command,
                          SomeAddr(V4(ReadIpv4Octets(Sub(addr_buf, 0, 4))),
                                   ReadU16(Sub(addr_buf, 8, 10))),
                          SomeAddr(V4(ReadIpv4Octets(Sub(addr_buf, 4, 8))),
                                   ReadU16(Sub(addr_buf, 10, 12)))),
                       used)
         [] af = "Inet6" ->
              IF n < 16 \/ n < 32 \/ n < 34 \/ n < 36 THEN RPanic(used)
              ELSE IF transport # "Stream" THEN RErr("InvalidProtocol", used)
              ELSE ROk(HeaderNewWithCommand(2, "Tcp6", command,
                          SomeAddr(V6(slice_to_ipv6addr(Sub(addr_buf, 0, 16))),
                                   ReadU16(Sub(addr_buf, 32, 34))),
                          SomeAddr(V6(slice_to_ipv6addr(Sub(addr_buf, 16, 32))),
                                   ReadU16(Sub(addr_buf, 34, 36)))),
                       used)
         [] OTHER -> ROk(HeaderNewUnknown(2), used)

\* read_proxy_protocol_v2_after_first_byte(r, header_buf_already_read): the
\* header began at offset hstart of data and bytes_read bytes of it have
\* been taken from the reader already
read_proxy_protocol_v2_after_first_byte(data, hstart, bytes_read) ==
    LET rest == V2HeaderLen - bytes_read
        pos == hstart + bytes_read
    IN IF bytes_read < V2HeaderLen /\ ~ReadExactOk(data, pos, rest)
       THEN RErr("Io", bytes_read + ReadExactUsed(data, pos, rest))
       ELSE LET header_buf == Slice(data, hstart, V2HeaderLen)
                b12 == header_buf[13]
                b13 == header_buf[14]
                addrlen == ReadU16(Sub(header_buf, 14, 16))
            IN IF Sub(header_buf, 0, 12) # V2Magic
               THEN RErr("MissingLiteral", V2HeaderLen)
               ELSE IF b12 \div 16 # 2 THEN RErr("BadVersion", V2HeaderLen)
               ELSE IF V2Command(b12) = "Invalid"
                    THEN RErr("InvalidProtocol", V2HeaderLen)
               ELSE IF V2Family(b13) = "Invalid"
                    THEN RErr("InvalidProtocol", V2HeaderLen)
               ELSE IF V2Transport(b13) = "Invalid"
                    THEN RErr("InvalidProtocol", V2HeaderLen)
               ELSE IF addrlen > V2MaxAddrLen
                    THEN RErr("InvalidProtocol", V2HeaderLen)
               ELSE IF ~ReadExactOk(data, hstart + V2HeaderLen, addrlen)
                    THEN RErr("Io", V2HeaderLen
                                    + ReadExactUsed(data, hstart + V2HeaderLen, addrlen))
               ELSE V2Addresses(Slice(data, hstart + V2HeaderLen, addrlen),
                                V2Family(b13), V2Transport(b13), V2Command(b12),
                                V2HeaderLen + addrlen)

\* read_proxy_protocol_v2(r) for the reader (data, start)
read_proxy_protocol_v2(data, start) ==
    IF ~ReadExactOk(data, start, V2HeaderLen)
    THEN RErr("Io", ReadExactUsed(data, start, V2HeaderLen))
    ELSE IF data[start + 1] # CR THEN RErr("MissingLiteral", V2HeaderLen)
    ELSE read_proxy_protocol_v2_after_first_byte(data, start, V2HeaderLen)

\* ------------------------------------------------------------------------
\* The auto-detecting mode
\* ------------------------------------------------------------------------
\* read_proxy_protocol_any handing the parser &buf[1..buf_len], as
\* read_proxy_protocol_v1 does, although 'P' is not in its buffer
read_proxy_protocol_any_skipping(data, start) ==
    IF ~ReadExactOk(data, start, 1) THEN RErr("Io", 0)
    ELSE IF data[start + 1] = CR
         THEN read_proxy_protocol_v2_after_first_byte(data, start, 1)
    ELSE IF data[start + 1] = LetterP
         THEN LET Rest(c) ==
                      IF c.err # "" THEN RErr(c.err, 1 + c.used)
                      ELSE parse_proxy_protocol_v1_after_first_byte(
                               Slice(data, start + 2, c.end_idx - 1), 1 + c.used)
              IN Rest(read_to_crlf(data, start + 1))
    ELSE RErr("MissingFirstByte", 1)

\* read_proxy_protocol_any(r) for the reader (data, start)
read_proxy_protocol_any(data, start) ==
    IF ~ReadExactOk(data, start, 1) THEN RErr("Io", 0)
    ELSE IF data[start + 1] = CR
         THEN read_proxy_protocol_v2_after_first_byte(data, start, 1)
    ELSE IF data[start + 1] = LetterP
         THEN LET Rest(c) ==
                      IF c.err # "" THEN RErr(c.err, 1 + c.used)
                      ELSE parse_proxy_protocol_v1_after_first_byte(
                               Slice(data, start + 1, c.end_idx), 1 + c.used)
              IN Rest(read_to_crlf(data, start + 1))
    ELSE RErr("MissingFirstByte", 1)

\* the match on v of ProxyStream::from_stream
Decode(v, data, start) ==
    CASE v = "V1" -> read_proxy_protocol_v1(data, start)
      [] v = "V2" -> read_proxy_protocol_v2(data, start)
      [] OTHER -> read_proxy_protocol_any(data, start)

\* ------------------------------------------------------------------------
\* Bounds of the model
\* ------------------------------------------------------------------------

\* application bytes following a header: 0..MaxApp of them
MaxApp == 3

\* v1 headers are padded to every length within PadSpan of V1BufLen
PadSpan == 2

\* largest buffer handed to read()
MaxRead == 2

\* write() calls per connection
MaxWrites == 1

\* ------------------------------------------------------------------------
\* What a peer can put on the wire.  A wire is the byte sequence of one raw
\* connection together with what its sender meant by it: form ("v1", "v2"
\* or "raw"), wf (a well-formed header with TCP4/TCP6 addresses, a v1 line
\* being at most 107 bytes), the addresses it carries, the header length
\* hlen and the application bytes.
\* ------------------------------------------------------------------------

CRLF == <<CR, LF>>

LitPROXY == <<LetterP>> \o LitROXY

RECURSIVE DecStr(_)
DecStr(n) == IF n < 10 THEN <<48 + n>> ELSE DecStr(n \div 10) \o <<48 + (n % 10)>>

HexDigit(d) == IF d < 10 THEN 48 + d ELSE 87 + d

RECURSIVE HexStr(_)
HexStr(n) == IF n < 16 THEN <<HexDigit(n)>> ELSE HexStr(n \div 16) \o <<HexDigit(n % 16)>>

RECURSIVE Join(_, _)
Join(fields, sep) ==
    IF Len(fields) = 0 THEN <<>>
    ELSE IF Len(fields) = 1 THEN fields[1]
    ELSE fields[1] \o <<sep>> \o Join(Tail(fields), sep)

A4(o) == [text |-> Join([k \in 1..4 |-> DecStr(o[k])], 46), ip |-> V4(o)]

A6(g) == [text |-> Join([k \in 1..8 |-> HexStr(g[k])], 58), ip |-> V6(g)]

Port(n) == [text |-> DecStr(n), val |-> n]

\* the first n bytes of pattern p repeated
App(p, n) == [k \in 1..n |-> p[((k - 1) % Len(p)) + 1]]

\* "GET ", CR LF CR LF, LF 'P' CR LF
AppPatterns == {<<71, 69, 84, 32>>, <<13, 10, 13, 10>>, <<10, 80, 13, 10>>}

AppSet == {App(p, n) : p \in AppPatterns, n \in 0..MaxApp}

AppFew == {<<>>, App(<<13, 10, 13, 10>>, MaxApp)}

Wire(bytes, form, wf, proto, command, src, dst, hlen, app) ==
    [bytes |-> bytes, form |-> form, wf |-> wf, proto |-> proto,
     command |-> command, src |-> src, dst |-> dst, hlen |-> hlen, app |-> app]

\* a wire about which the sender claims nothing
Raw(bytes) == Wire(bytes, "raw", FALSE, "None", "None", NoneAddr, NoneAddr, 0, <<>>)

NoWire == Raw(<<>>)

Src4 == {A4(<<127, 0, 0, 1>>), A4(<<255, 255, 255, 255>>), A4(<<10, 11, 12, 13>>)}

Dst4 == {A4(<<127, 0, 0, 2>>), A4(<<192, 168, 0, 11>>)}

\* "0000:0000:0000:0000:0000:ffff:255.255.255.255", the longest spelling of
\* an IPv6 address
LongText6 ==
    <<48, 48, 48, 48, 58, 48, 48, 48, 48, 58, 48, 48, 48, 48, 58, 48, 48, 48, 48, 58,
      48, 48, 48, 48, 58, 102, 102, 102, 102, 58,
      50, 53, 53, 46, 50, 53, 53, 46, 50, 53, 53, 46, 50, 53, 53>>

\* "::1" and "fd00::a" are the compressed spellings
Src6 ==
    {A6(<<65535, 65535, 65535, 65535, 65535, 65535, 65535, 65535>>),
     A6(<<8193, 3512, 1, 2, 3, 4, 5, 6>>),
     [text |-> <<58, 58, 49>>, ip |-> V6(<<0, 0, 0, 0, 0, 0, 0, 1>>)],
     [text |-> LongText6, ip |-> V6(<<0, 0, 0, 0, 0, 65535, 65535, 65535>>)]}

Dst6 ==
    {A6(<<65535, 65535, 65535, 65535, 65535, 65535, 65535, 65535>>),
     [text |-> <<102, 100, 48, 48, 58, 58, 97>>, ip |-> V6(<<64768, 0, 0, 0, 0, 0, 0, 10>>)]}

SrcPorts == {Port(0), Port(2020), Port(65535)}

DstPorts == {Port(443), Port(65535)}

\* "PROXY <proto> <src-ip> <dst-ip> <src-port> <dst-port>\r\n" then app
V1Wire(proto, s, d, sp, dp, app) ==
    LET line == Join(<<LitPROXY, IF proto = "Tcp4" THEN LitTCP4 ELSE LitTCP6,
                       s.text, d.text, sp.text, dp.text>>, SP) \o CRLF
    IN Wire(line \o app, "v1", Len(line) <= V1BufLen, proto, "Proxy",
            SomeAddr(s.ip, sp.val), SomeAddr(d.ip, dp.val), Len(line), app)

\* every combination of addresses and ports, and every kind of application
\* bytes after one of them
WellFormedV1 ==
    {V1Wire("Tcp4", s, d, sp, dp, app) :
        s \in Src4, d \in Dst4, sp \in SrcPorts, dp \in DstPorts, app \in AppFew}
    \cup
    {V1Wire("Tcp6", s, d, sp, dp, app) :
        s \in Src6, d \in Dst6, sp \in SrcPorts, dp \in DstPorts, app \in AppFew}
    \cup
    {V1Wire("Tcp4", A4(<<127, 0, 0, 1>>), A4(<<127, 0, 0, 2>>), Port(2020), Port(3030), app) :
        app \in AppSet}
    \cup
    {V1Wire("Tcp6", A6(<<8193, 3512, 1, 2, 3, 4, 5, 6>>), A6(<<0, 0, 0, 0, 0, 0, 0, 1>>),
            Port(2020), Port(3030), app) :
        app \in AppSet}

\* "PROXY UNKNOWN" with n extra bytes 'x' after a space, so that the line
\* with its CRLF is total bytes long
Filler(n) == [k \in 1..n |-> 120]

UnknownLine(total) ==
    LitPROXY \o <<SP>> \o LitUNKNOWN \o <<SP>> \o Filler(total - 16) \o CRLF

\* the same without any CRLF
NoCrlfLine(total) == LitPROXY \o <<SP>> \o LitUNKNOWN \o <<SP>> \o Filler(total - 14)

PadLens == (V1BufLen - PadSpan)..(V1BufLen + 1 + PadSpan)

PaddedV1 ==
    {Raw(UnknownLine(n) \o app) : n \in PadLens, app \in AppFew}
    \cup {Raw(NoCrlfLine(n)) : n \in PadLens}

\* a TCP4 line whose address and port fields are the given texts
Line(fields) == Join(fields, SP) \o CRLF

T4a == <<49, 46, 50, 46, 51, 46, 52>>

T4b == <<53, 46, 54, 46, 55, 46, 56>>

T6a == <<58, 58, 49>>

TP80 == <<56, 48>>

TJunk == <<106, 117, 110, 107>>

\* lines that are not the canonical form: each is a list of fields
OddFieldLists ==
    {<<LitPROXY, LitUNKNOWN>>,
     <<LitPROXY, LitUNKNOWN, TJunk, TJunk>>,
     <<LitPROXY, LitUNKNOWN \o <<88>>>>,
     <<LitPROXY, LitUNKNOWN, <<>>, T4a>>,
     <<LitPROXY>>,
     <<LitPROXY, <<>>>>,
     <<LitPROXY, <<>>, LitTCP4, T4a, T4b, TP80, TP80>>,
     <<LitPROXY \o <<88>>, LitUNKNOWN>>,
     <<<<88>> \o LitROXY, LitUNKNOWN>>,
     <<<<88>> \o LitROXY, LitTCP4, T4a, T4b, TP80, TP80>>,
     <<<<81>>, LitTCP4>>,
     <<<<LetterP>>>>,
     <<<<>>>>,
     <<<<112, 114, 111, 120, 121>>, <<116, 99, 112, 52>>, T4a, T4b, <<48>>, <<48>>>>,
     <<LitPROXY, <<116, 99, 112, 52>>, T4a, T4b, <<48>>, <<48>>>>,
     <<<<112, 114, 111, 120, 121>>, LitTCP4, T4a, T4b, <<48>>, <<48>>>>,
     <<<<112, 114, 111, 120, 121>>, LitUNKNOWN>>,
     <<LitPROXY, <<84, 67, 80, 53>>, T4a, T4b, TP80, TP80>>,
     <<LitPROXY, LitTCP4>>,
     <<LitPROXY, LitTCP4, T4a>>,
     <<LitPROXY, LitTCP6, T6a, T6a>>,
     <<LitPROXY, LitTCP4, T4a, T4b, TP80>>,
     <<LitPROXY, LitTCP4, T4a, T4b, TP80, TP80, TJunk>>,
     <<LitPROXY, LitTCP4, T4a, T4b, <<43, 56, 48>>, <<48, 48, 56, 48>>>>,
     <<LitPROXY, LitTCP4, T4a, T4b, <<54, 53, 53, 51, 54>>, TP80>>,
     <<LitPROXY, LitTCP4, T4a, T4b, TP80, <<54, 53, 53, 51, 54>>>>,
     <<LitPROXY, LitTCP4, T4a, T4b, <<45, 49>>, TP80>>,
     <<LitPROXY, LitTCP4, T4a, T4b, TP80, <<56, 120>>>>,
     <<LitPROXY, LitTCP4, T4a, T4b, <<>>, TP80>>,
     <<LitPROXY, LitTCP4, <<50, 53, 54, 46, 49, 46, 49, 46, 49>>, T4b, TP80, TP80>>,
     <<LitPROXY, LitTCP4, T4a, <<49, 46, 50, 46, 51>>, TP80, TP80>>,
     <<LitPROXY, LitTCP4, TJunk, TJunk, TJunk, TJunk>>,
     <<LitPROXY, LitTCP6, <<49, 58, 50, 58, 51, 58, 52, 58, 53, 58, 54, 58, 55>>, T6a, TP80, TP80>>,
     <<LitPROXY, LitTCP6, <<49, 50, 51, 52, 53, 58, 58>>, T6a, TP80, TP80>>,
     <<LitPROXY, LitTCP6, T6a, <<58, 58, 102, 102, 102, 102, 58, 49, 46, 50, 46, 51, 46, 52>>, TP80, TP80>>,
     <<LitPROXY, LitTCP4, T6a, T6a, TP80, TP80>>,
     <<LitPROXY, LitTCP6, T4a, T4b, TP80, TP80>>,
     <<LitPROXY, LitTCP4, T4a, T6a, TP80, TP80>>,
     <<LitPROXY, LitTCP6, T6a, T4b, TP80, TP80>>}

OddV1 == {Raw(Line(f) \o app) : f \in OddFieldLists, app \in AppFew}

\* byte sequences that are not text: a lone 0xFF, a truncated two-byte
\* sequence, an encoded surrogate; and one that is ("e" with an accent)
NonText == {<<255>>, <<195>>, <<237, 160, 128>>}

TextTails == NonText \cup {<<195, 169>>}

\* fs with tail appended to its k-th field
Inject(fs, k, tail) == [j \in 1..Len(fs) |-> IF j = k THEN fs[j] \o tail ELSE fs[j]]

InjectBases ==
    {<<LitPROXY, LitTCP4, T4a, T4b, TP80, TP80, TJunk>>,
     <<LitPROXY, LitTCP6, T6a, T6a, TP80, TP80>>,
     <<LitPROXY, LitUNKNOWN, TJunk, TJunk>>,
     <<LitPROXY, LitTCP4, TJunk, T4b, TP80, TP80>>,
     <<LitPROXY, LitTCP4, T4a, T4b, TJunk, TP80>>,
     <<LitPROXY, LitTCP4, T4a, T4b>>}

InjectedV1 ==
    {Raw(Line(Inject(fs, k, t))) : fs \in InjectBases, k \in 1..7, t \in TextTails}

\* streams that end early, or have CR LF in odd places
RawV1 ==
    {Raw(<<>>), Raw(CRLF), Raw(<<CR>>), Raw(<<LetterP>>), Raw(<<LetterP, CR>>),
     Raw(<<LetterP>> \o CRLF), Raw(LitPROXY), Raw(LitPROXY \o <<SP>> \o LitUNKNOWN),
     Raw(LitPROXY \o <<SP>> \o LitUNKNOWN \o <<CR>>),
     Raw(LitPROXY \o <<SP>> \o LitUNKNOWN \o <<LF>>),
     Raw(LitPROXY \o <<SP>> \o LitUNKNOWN \o <<CR, CR, LF>>),
     Raw(LitPROXY \o <<SP>> \o LitUNKNOWN \o <<SP, CR, 120>> \o CRLF),
     Raw(<<88>> \o CRLF), Raw(<<88, 88>> \o CRLF), Raw(<<88>> \o CRLF \o <<88>>)}
    \cup {Raw(CRLF \o Line(f)) : f \in {<<LitPROXY, LitUNKNOWN>>, <<TJunk>>}}
    \cup {Raw(<<LetterP>> \o CRLF \o Line(f)) :
             f \in {<<LitROXY, LitUNKNOWN>>, <<LitPROXY, LitUNKNOWN>>, <<TJunk>>}}
    \cup {Raw(<<b>> \o app) : b \in {0, 10, 79, 81, 112, 255}, app \in AppFew}

\* ---- v2 wires ----

Be16(n) == <<n \div 256, n % 256>>

RECURSIVE Be16s(_)
Be16s(g) == IF Len(g) = 0 THEN <<>> ELSE Be16(g[1]) \o Be16s(Tail(g))

\* TLV bytes after the addresses: n of them
Tlv(n) == [k \in 1..n |-> (k * 7) % 256]

\* magic, version/command byte, family/transport byte, length, block
V2Bytes(b12, b13, len, block) == V2Magic \o <<b12, b13>> \o Be16(len) \o block

\* the address block of a TCP-over-IPv4 or TCP-over-IPv6 header
Block(s, d, sp, dp) ==
    IF s.ip.fam = "V4"
    THEN s.ip.parts \o d.ip.parts \o Be16(sp.val) \o Be16(dp.val)
    ELSE Be16s(s.ip.parts) \o Be16s(d.ip.parts) \o Be16(sp.val) \o Be16(dp.val)

\* a well-formed v2 header for command cmd (0 Local, 1 Proxy) carrying the
\* addresses, extra TLV bytes, then app
V2Wire(cmd, s, d, sp, dp, extra, app) ==
    LET block == Block(s, d, sp, dp) \o Tlv(extra)
        hdr == V2Bytes(32 + cmd, IF s.ip.fam = "V4" THEN 17 ELSE 33, Len(block), block)
    IN Wire(hdr \o app, "v2", TRUE, IF s.ip.fam = "V4" THEN "Tcp4" ELSE "Tcp6",
            IF cmd = 1 THEN "Proxy" ELSE "Local",
            SomeAddr(s.ip, sp.val), SomeAddr(d.ip, dp.val), Len(hdr), app)

V2Src6 ==
    {A6(<<64768, 0, 0, 0, 0, 0, 0, 1>>), A6(<<8193, 3512, 1, 2, 3, 4, 5, 6>>)}

V2Dst6 == {A6(<<0, 0, 0, 0, 0, 0, 0, 1>>), A6(<<65535, 1, 2, 3, 4, 515, 6, 7>>)}

V2Ports == {Port(8888), Port(65535)}

WellFormedV2 ==
    {V2Wire(cmd, s, d, sp, Port(9999), extra, app) :
        cmd \in {0, 1}, s \in Src4, d \in Dst4, sp \in V2Ports,
        extra \in {0, 1, V2MaxAddrLen - 12}, app \in AppFew}
    \cup
    {V2Wire(cmd, s, d, sp, Port(9999), extra, app) :
        cmd \in {0, 1}, s \in V2Src6, d \in V2Dst6, sp \in V2Ports,
        extra \in {0, 1, V2MaxAddrLen - 36}, app \in AppFew}
    \cup
    {V2Wire(1, s, s, Port(8888), Port(9999), 0, app) :
        s \in {A4(<<10, 11, 12, 13>>), A6(<<8193, 3512, 1, 2, 3, 4, 5, 6>>)},
        app \in AppSet}

\* headers with every kind of version, command, family, transport and
\* declared length, over a block of that length and more bytes after it
OddV2 ==
    {Raw(V2Bytes(b12, b13, len, Tlv(len + more))) :
        b12 \in {32, 33, 34, 17, 47},
        b13 \in {0, 1, 16, 17, 18, 19, 32, 33, 34, 48, 49, 65},
        len \in {0, 3, 4, 11, 12, 35, 36, V2MaxAddrLen, V2MaxAddrLen + 1},
        more \in {0, MaxApp}}
    \cup
    {Raw(V2Bytes(33, b13, len, Tlv(len - 1))) :
        b13 \in {0, 17, 33}, len \in {1, 12, 36, V2MaxAddrLen}}

RawV2 ==
    {Raw(Slice(V2Magic, 0, n)) : n \in 1..12}
    \cup {Raw(Slice(V2Bytes(33, 17, 12, Tlv(12)), 0, n)) : n \in 13..15}
    \cup {Raw([V2Bytes(33, 17, 12, Tlv(12)) EXCEPT ![k] = 88]) : k \in 1..12}

Wires ==
    WellFormedV1 \cup PaddedV1 \cup OddV1 \cup InjectedV1 \cup RawV1
    \cup WellFormedV2 \cup OddV2 \cup RawV2

\* ------------------------------------------------------------------------
\* ProxyListener and ProxyStream
\* ------------------------------------------------------------------------

\* the address the wrapped connection reports for its peer (the balancer)
NativePeer == SomeAddr(V4(<<10, 0, 0, 9>>), 40000)

\* impl Into<hyper::Error> for ProxyReadError
IntoHyperError(e) ==
    IF e = "Io" THEN "Io" ELSE IF e = "Utf8" THEN "Utf8" ELSE "Version"

NoResult == RErr("", 0)

VARIABLES
    version,    \* ProxyListener.version
    accepts,    \* calls of the wrapped listener's accept() made by the last
                \* ProxyListener::accept
    decodes,    \* header decodes started by the last ProxyListener::accept
    st,         \* outcome of the last accept(): "Idle" before any, "Open" with
                \* a ProxyStream, "Failed", "AcceptErr" or "Panicked"
    herr,       \* the hyper::Error accept() returned, "" if none
    sent,       \* the wire of the accepted raw connection
    pos,        \* bytes taken from the raw connection so far
    result,     \* what the header decode returned
    peer_addr,  \* ProxyStream.peer_addr
    got,        \* bytes returned by ProxyStream::read so far, in order
    eof,        \* a read has returned 0
    peer,       \* what the last ProxyStream::peer_addr() returned
    writes      \* ProxyStream::write calls forwarded so far

vars ==
    <<version, accepts, decodes, st, herr, sent, pos, result, peer_addr, got,
      eof, peer, writes>>

Versions == {"V1", "V2", "Any"}

\* ProxyListener::new(listener, proxy_protocol_version)
Init ==
    /\ version \in Versions
    /\ accepts = 0
    /\ decodes = 0
    /\ st = "Idle"
    /\ herr = ""
    /\ sent = NoWire
    /\ pos = 0
    /\ result = NoResult
    /\ peer_addr = NoneAddr
    /\ got = <<>>
    /\ eof = FALSE
    /\ peer = NoneAddr
    /\ writes = 0

\* ProxyStream::from_stream(stream, v), as the state it leaves behind
from_stream(w, v) ==
    \E r \in {Decode(v, w.bytes, 0)} :
       /\ result' = r
       /\ pos' = r.used
       /\ st' = CASE r.kind = "Ok" -> "Open"
                  [] r.kind = "Err" -> "Failed"
                  [] OTHER -> "Panicked"
       /\ herr' = IF r.kind = "Err" THEN IntoHyperError(r.error) ELSE ""
       /\ peer_addr' = IF r.kind = "Ok" THEN r.header.source_addr ELSE NoneAddr

\* ProxyListener::accept decoding in the auto-detecting mode whatever mode
\* the listener was built with
Accept_any(w) ==
    /\ st = "Idle"
    /\ accepts' = 1
    /\ decodes' = 1
    /\ sent' = w
    /\ from_stream(w, "Any")
    /\ UNCHANGED <<version, got, eof, peer, writes>>

\* ProxyListener::accept when self.inner.accept() returns a connection
Accept(w) ==
    /\ st = "Idle"
    /\ accepts' = 1
    /\ decodes' = 1
    /\ sent' = w
    /\ from_stream(w, version)
    /\ UNCHANGED <<version, got, eof, peer, writes>>

\* ProxyListener::accept when self.inner.accept()? returns early
AcceptFails ==
    /\ st = "Idle"
    /\ accepts' = 1
    /\ decodes' = 0
    /\ st' = "AcceptErr"
    /\ herr' = "Io"
    /\ UNCHANGED <<version, sent, pos, result, peer_addr, got, eof, peer, writes>>

\* ProxyStream::peer_addr
PeerAddr ==
    /\ st = "Open"
    /\ peer' = IF peer_addr.some THEN peer_addr ELSE NativePeer
    /\ UNCHANGED <<version, accepts, decodes, st, herr, sent, pos, result,
                   peer_addr, got, eof, writes>>

\* ProxyStream::read(buf) with a buffer of n bytes of which the wrapped
\* connection fills k: at least one unless it is at end of file
Read(n, k) ==
    /\ st = "Open"
    /\ ~eof
    /\ k <= n
    /\ k <= Len(sent.bytes) - pos
    /\ k = 0 <=> pos = Len(sent.bytes)
    /\ got' = got \o Slice(sent.bytes, pos, k)
    /\ pos' = pos + k
    /\ eof' = (k = 0)
    /\ UNCHANGED <<version, accepts, decodes, st, herr, sent, result, peer_addr,
                   peer, writes>>

\* ProxyStream::write and flush: forwarded, the input side is untouched
Write ==
    /\ st = "Open"
    /\ writes < MaxWrites
    /\ writes' = writes + 1
    /\ UNCHANGED <<version, accepts, decodes, st, herr, sent, pos, result,
                   peer_addr, got, eof, peer>>

\* the caller drops what accept() returned (the ProxyStream or the error)
Drop ==
    /\ st \in {"Open", "Failed", "AcceptErr"}
    /\ st' = "Idle"
    /\ herr' = ""
    /\ sent' = NoWire
    /\ pos' = 0
    /\ result' = NoResult
    /\ peer_addr' = NoneAddr
    /\ got' = <<>>
    /\ eof' = FALSE
    /\ peer' = NoneAddr
    /\ writes' = 0
    /\ accepts' = 0
    /\ decodes' = 0
    /\ UNCHANGED version

Next ==
    \/ \E w \in Wires : Accept(w)
    \/ AcceptFails
    \/ PeerAddr
    \/ \E n \in 1..MaxRead, k \in 0..MaxRead : Read(n, k)
    \/ Write
    \/ Drop

Spec == Init /\ [][Next]_vars

TypeOK ==
    /\ version \in Versions
    /\ accepts \in {0, 1}
    /\ decodes \in {0, 1}
    /\ st \in {"Idle", "Open", "Failed", "AcceptErr", "Panicked"}
    /\ pos <= Len(sent.bytes)

\* ------------------------------------------------------------------------
\* Properties
\* ------------------------------------------------------------------------

\* the last accept() got a connection and ran a header decode on it
Decoded == st \in {"Open", "Failed", "Panicked"}

\* the header on the wire is of the form the listener's mode expects
FormMatches == (version = "V1" => sent.form = "v1") /\ (version = "V2" => sent.form = "v2")

IsPrefix(a, b) == Len(a) <= Len(b) /\ \A k \in 1..Len(a) : a[k] = b[k]

\* C1: a listener in any mode, given a well-formed header of the matching
\* form with TCP4/TCP6 addresses and then application bytes, accepts; the
\* stream's peer_addr() is the header's source address and port; and the
\* reads return the application bytes, all of them, in order, and nothing
\* of the header.
C1_EndToEnd ==
    (Decoded /\ sent.wf /\ sent.command = "Proxy" /\ FormMatches) =>
        /\ st = "Open"
        /\ (peer.some => peer = sent.src)
        /\ IsPrefix(got, sent.app)
        /\ (eof => got = sent.app)

\* the decode of the last accept() went through the v1 (text) code
DecodedV1 ==
    /\ Decoded
    /\ \/ version = "V1"
       \/ version = "Any" /\ Len(sent.bytes) > 0 /\ sent.bytes[1] = LetterP

\* the decode of the last accept() went through the v2 (binary) code
DecodedV2 ==
    /\ Decoded
    /\ \/ version = "V2"
       \/ version = "Any" /\ Len(sent.bytes) > 0 /\ sent.bytes[1] = CR

\* the offsets (counted from 1) of the LF of every CR LF pair of bytes
CrlfEnds(bytes) == {i \in 2..Len(bytes) : bytes[i - 1] = CR /\ bytes[i] = LF}

\* the number of bytes up to and including the first CR LF pair
FirstCrlfEnd(bytes) == CHOOSE i \in CrlfEnds(bytes) : \A j \in CrlfEnds(bytes) : i <= j

\* the address-block length a v2 header of at least 16 bytes declares
DeclaredLen(bytes) == bytes[15] * 256 + bytes[16]

\* C2: decoding the v1 form never takes a byte after the first CR LF pair
\* of the stream, wherever that pair is, and decoding the v2 form never
\* takes a byte after offset 16 + the declared address-block length; a
\* successful decode takes exactly those bytes.
C2_NoOverRead ==
    /\ (DecodedV1 /\ CrlfEnds(sent.bytes) # {}) =>
           /\ result.used <= FirstCrlfEnd(sent.bytes)
           /\ (result.kind = "Ok" => result.used = FirstCrlfEnd(sent.bytes))
    /\ (DecodedV2 /\ Len(sent.bytes) >= V2HeaderLen) =>
           /\ result.used <= V2HeaderLen + DeclaredLen(sent.bytes)
           /\ (result.kind = "Ok" =>
                  result.used = V2HeaderLen + DeclaredLen(sent.bytes))

\* the errors of the taxonomy
ErrorKinds ==
    {"MissingField", "MissingLiteral", "InvalidProtocol", "MissingCrlf",
     "MissingFirstByte", "BadVersion", "BadSourceAddress", "BadSourcePort",
     "BadDestAddress", "BadDestPort", "Io", "Utf8"}

\* h is a header with nothing left out
CompleteHeader(h) ==
    /\ h.version \in {1, 2}
    /\ h.proto \in {"Tcp4", "Tcp6", "Unix", "Unknown"}
    /\ h.command \in {"Local", "Proxy", "Unspec"}
    /\ h.source_addr.some = h.dest_addr.some

\* C3: on every input, in every mode, the decode ends by returning a
\* complete header or one of the typed errors; it never panics.
C3_NeverPanics ==
    Decoded =>
        \/ result.kind = "Ok" /\ CompleteHeader(result.header) /\ st = "Open"
        \/ result.kind = "Err" /\ result.error \in ErrorKinds /\ st = "Failed"

\* C4: decode_v2 on a well-formed header with command Proxy, transport
\* Stream and family Inet or Inet6 returns version 2, TCP4 resp. TCP6, and
\* the source and destination addresses and ports of the address block,
\* every 16-bit group of an IPv6 address included.
C4_V2Addresses ==
    (Decoded /\ version = "V2" /\ sent.form = "v2" /\ sent.wf
       /\ sent.command = "Proxy") =>
        /\ result.kind = "Ok"
        /\ result.header = HeaderNewWithCommand(2, sent.proto, "Proxy", sent.src, sent.dst)

\* C5: whenever decode_v1 succeeds on a byte string, and whenever decode_v2
\* succeeds on it, decode_any on the same byte string returns the same
\* header and takes the same number of bytes.
C5_AnyAgrees ==
    (Decoded /\ version = "Any") =>
        LET Same(r) == r.kind = "Ok" => result = r
        IN /\ Same(read_proxy_protocol_v1(sent.bytes, 0))
           /\ Same(read_proxy_protocol_v2(sent.bytes, 0))

\* decode_any has decoded a TCP6 v1 header that decode_v1 accepts, with
\* application bytes behind it
C5_Witness ==
    /\ version = "Any"
    /\ st = "Open"
    /\ sent.form = "v1"
    /\ result.header.proto = "Tcp6"
    /\ Len(sent.app) > 0
    /\ read_proxy_protocol_v1(sent.bytes, 0).kind = "Ok"


\* ---- C6 ----

\* some CR LF pair of bytes ends within the first V1BufLen bytes
CrlfWithinLimit(bytes) == \E i \in CrlfEnds(bytes) : i <= V1BufLen

\* C6: in every path that decodes the v1 form, a header is accepted only if
\* its CR LF ends within the first 107 bytes of the stream, the leading 'P'
\* included; when the stream holds more than 107 bytes and no CR LF ends
\* within the first 107, the decode fails with MissingCrlf and has taken no
\* more than 107 bytes.
C6_V1Within107 ==
    DecodedV1 =>
        /\ (result.kind = "Ok" =>
               result.used <= V1BufLen /\ result.used \in CrlfEnds(sent.bytes))
        /\ (Len(sent.bytes) > V1BufLen /\ ~CrlfWithinLimit(sent.bytes)) =>
               /\ result.kind = "Err"
               /\ result.error = "MissingCrlf"
               /\ result.used <= V1BufLen

\* ---- C7 ----

\* the LF offsets of the CR LF pairs the loop of read_to_crlf tests for when
\* it starts at the first byte of the stream: those ending at byte 3..107
SeenCrlfEnds(bytes) == {i \in CrlfEnds(bytes) : i >= 3 /\ i <= V1BufLen}

\* the bytes before the first space, or before the first CR LF decode_v1
\* sees if no space comes earlier
FirstField(bytes) ==
    LET UpTo(e) ==
            Slice(bytes, 0,
                  IF \E k \in 1..(e - 2) : bytes[k] = SP
                  THEN (CHOOSE k \in 1..(e - 2) :
                           bytes[k] = SP /\ \A j \in 1..(k - 1) : bytes[j] # SP) - 1
                  ELSE e - 2)
    IN UpTo(CHOOSE i \in SeenCrlfEnds(bytes) : \A j \in SeenCrlfEnds(bytes) : i <= j)

\* the stream starts with "PROXY "
LiteralMatches(bytes) ==
    Len(bytes) >= 6 /\ Slice(bytes, 0, 6) = LitPROXY \o <<SP>>

\* decode_any on a first byte that is neither 0x0D nor 'P'
AnyRejectsFirstByte ==
    (Decoded /\ version = "Any" /\ Len(sent.bytes) > 0
       /\ sent.bytes[1] \notin {CR, LetterP}) =>
        /\ result.kind = "Err"
        /\ result.error = "MissingFirstByte"
        /\ result.used = 1

\* C7 as stated: decode_v1 on a CR LF terminated input (within 107 bytes)
\* whose first byte is not 'P' fails with MissingFirstByte, and with
\* MissingLiteral when the first byte is 'P' but "PROXY " does not match;
\* decode_any on a first byte other than 0x0D and 'P' fails with
\* MissingFirstByte after taking one byte.
C7_FirstByteAsStated ==
    /\ (Decoded /\ version = "V1" /\ CrlfWithinLimit(sent.bytes)
          /\ sent.bytes[1] # LetterP) =>
           result.kind = "Err" /\ result.error = "MissingFirstByte"
    /\ (Decoded /\ version = "V1" /\ CrlfWithinLimit(sent.bytes)
          /\ sent.bytes[1] = LetterP /\ ~LiteralMatches(sent.bytes)) =>
           result.kind = "Err" /\ result.error = "MissingLiteral"
    /\ AnyRejectsFirstByte

\* C7 (amended): decode_v1 on an input whose first byte is not 'P' always
\* fails and never with MissingFirstByte: with MissingLiteral when a CR LF
\* pair ends at byte 3..107 of the stream, otherwise with MissingCrlf or Io;
\* it fails with MissingLiteral when the first byte is 'P', a CR LF pair ends
\* at byte 3..107 and the bytes before the first space (or before that CR LF)
\* are not exactly "PROXY"; decode_any on a first byte other than 0x0D and
\* 'P' fails with MissingFirstByte after taking exactly one byte.
C7_WrongStart ==
    /\ (Decoded /\ version = "V1" /\ Len(sent.bytes) > 0
          /\ sent.bytes[1] # LetterP) =>
           /\ result.kind = "Err"
           /\ result.error \in {"MissingLiteral", "MissingCrlf", "Io"}
           /\ (SeenCrlfEnds(sent.bytes) # {} => result.error = "MissingLiteral")
    /\ (Decoded /\ version = "V1" /\ Len(sent.bytes) > 0
          /\ sent.bytes[1] = LetterP /\ SeenCrlfEnds(sent.bytes) # {}
          /\ FirstField(sent.bytes) # LitPROXY) =>
           result.kind = "Err" /\ result.error = "MissingLiteral"
    /\ AnyRejectsFirstByte

\* decode_v1 has refused a CR LF terminated line that does not start with 'P'
C7_Witness ==
    /\ version = "V1"
    /\ st = "Failed"
    /\ Len(sent.bytes) > 0
    /\ sent.bytes[1] # LetterP
    /\ SeenCrlfEnds(sent.bytes) # {}
    /\ result.error = "MissingLiteral"

\* ---- C8 ----

\* C8: peer_addr() of a constructed ProxyStream returns the header's source
\* address when the header carried one and the wrapped connection's own peer
\* address otherwise; the native address is what it returns for a v1 UNKNOWN
\* header, a v2 header of family Unspec or Unix, and a v2 header with command
\* Local whatever its family.
C8_PeerAddr ==
    (st = "Open" /\ peer.some) =>
        peer = IF result.header.source_addr.some /\ result.header.command # "Local"
               THEN result.header.source_addr
               ELSE NativePeer


\* ---- C9 ----

\* "PROXY UNKNOWN"
LitProxyUnknown == LitPROXY \o <<SP>> \o LitUNKNOWN

\* the stream starts with "PROXY UNKNOWN" and has a CR LF pair
StartsUnknown(bytes) ==
    /\ Len(bytes) >= Len(LitProxyUnknown)
    /\ Slice(bytes, 0, Len(LitProxyUnknown)) = LitProxyUnknown
    /\ CrlfEnds(bytes) # {}

\* the stream starts with lowercase "proxy", or has lowercase "tcp4" where
\* the protocol field is
UsesLowercase(bytes) ==
    \/ Len(bytes) >= 5 /\ Slice(bytes, 0, 5) = <<112, 114, 111, 120, 121>>
    \/ Len(bytes) >= 10 /\ Slice(bytes, 6, 4) = <<116, 99, 112, 52>>

\* decode_v1 rejects lowercase keywords, the empty input and the bare CR LF
V1RejectsVectors ==
    (Decoded /\ version = "V1"
       /\ (UsesLowercase(sent.bytes) \/ sent.bytes = <<>> \/ sent.bytes = CRLF)) =>
        result.kind = "Err"

\* C9 as stated: for every line "PROXY <proto> <src-ip> <dst-ip> <src-port>
\* <dst-port>\r\n" with proto TCP4 or TCP6, valid addresses of that family
\* and ports in 0..65535, decode_v1 returns version 1, the protocol, command
\* Proxy and the two addresses exactly; for "PROXY UNKNOWN" followed by
\* anything up to the CR LF it returns protocol Unknown, command Unspec and
\* no addresses; lowercase "proxy"/"tcp4", the empty input and the bare
\* "\r\n" fail.
C9_V1AsStated ==
    /\ (Decoded /\ version = "V1" /\ sent.form = "v1") =>
           /\ result.kind = "Ok"
           /\ result.header = HeaderNew(1, sent.proto, sent.src, sent.dst)
    /\ (Decoded /\ version = "V1" /\ StartsUnknown(sent.bytes)) =>
           /\ result.kind = "Ok"
           /\ result.header = HeaderNewUnknown(1)
    /\ V1RejectsVectors

\* C9 (amended): the same for every such TCP4/TCP6 line of at most 107
\* bytes, CR LF included; for "PROXY UNKNOWN" followed at once by CR LF, or
\* by a space and then anything, with the CR LF ending within the first 107
\* bytes, decode_v1 returns protocol Unknown, command Unspec and no
\* addresses; lowercase "proxy"/"tcp4", the empty input and the bare "\r\n"
\* fail.
C9_V1Lines ==
    /\ (Decoded /\ version = "V1" /\ sent.form = "v1" /\ sent.wf) =>
           /\ result.kind = "Ok"
           /\ result.header = HeaderNew(1, sent.proto, sent.src, sent.dst)
    /\ (Decoded /\ version = "V1" /\ StartsUnknown(sent.bytes)
          /\ FirstCrlfEnd(sent.bytes) <= V1BufLen
          /\ (sent.bytes[14] = SP \/ FirstCrlfEnd(sent.bytes) = 15)) =>
           /\ result.kind = "Ok"
           /\ result.header = HeaderNewUnknown(1)
    /\ V1RejectsVectors

\* decode_v1 has returned the header of a TCP6 line of 104 bytes or more
\* whose two ports differ
C9_Witness ==
    /\ version = "V1"
    /\ st = "Open"
    /\ sent.form = "v1"
    /\ sent.wf
    /\ sent.proto = "Tcp6"
    /\ sent.hlen >= 104
    /\ sent.src.port # sent.dst.port
    /\ result.header = HeaderNew(1, "Tcp6", sent.src, sent.dst)

\* ---- C10 ----

\* a v1 header both decode_v1 and decode_any cut at the same CR LF: the
\* first CR LF pair of the stream, ending at byte 4..107
HasHeaderLine(bytes) ==
    /\ CrlfEnds(bytes) # {}
    /\ FirstCrlfEnd(bytes) >= 4
    /\ FirstCrlfEnd(bytes) <= V1BufLen

\* the header without its CR LF
HeaderLine(bytes) == Slice(bytes, 0, FirstCrlfEnd(bytes) - 2)

\* C10 as stated: a v1 header with a byte sequence that is not valid UTF-8
\* anywhere between its start and its CR LF fails with Utf8, before
\* MissingLiteral or MissingField, and is never accepted.
C10_Utf8AsStated ==
    (DecodedV1 /\ HasHeaderLine(sent.bytes)
       /\ ~Utf8Valid(HeaderLine(sent.bytes))) =>
        result.kind = "Err" /\ result.error = "Utf8"

\* field k of the header exists and is not valid UTF-8
BadText(fields, k) == k <= Len(fields) /\ ~Utf8Valid(fields[k])

\* field j (3..6) of the header is a well-formed address resp. port
GoodField(fields, j) ==
    /\ j <= Len(fields)
    /\ IF j <= 4 THEN ParseIpAddr(fields[j]) # NoIp ELSE ParseU16(fields[j]) >= 0

\* the fields are "PROXY", then TCP4 or TCP6
TcpLine(fields) == fields[1] = LitPROXY /\ Len(fields) >= 2 /\ fields[2] \in {LitTCP4, LitTCP6}

\* what the decode r of a header made of these fields is
Utf8PerField(fields, r) ==
    /\ BadText(fields, 1) => (r.kind = "Err" /\ r.error = "MissingLiteral")
    /\ (fields[1] = LitPROXY /\ Len(fields) >= 2 /\ fields[2] = LitUNKNOWN) =>
           r.kind = "Ok"
    /\ (fields[1] = LitPROXY /\ BadText(fields, 2)) =>
           (r.kind = "Err" /\ r.error = "Utf8")
    /\ \A k \in 3..6 :
           (TcpLine(fields) /\ BadText(fields, k)
              /\ \A j \in 3..(k - 1) : GoodField(fields, j)) =>
               (r.kind = "Err" /\ r.error = "Utf8")
    /\ (TcpLine(fields) /\ \A j \in 3..6 : GoodField(fields, j)) => r.kind = "Ok"
    /\ (r.kind = "Err" /\ r.error = "Utf8") =>
           \E k \in 2..6 : BadText(fields, k) /\ \A j \in 1..(k - 1) : ~BadText(fields, j)
    /\ (r.kind = "Ok" /\ r.header.proto # "Unknown") =>
           \A k \in 1..6 : ~BadText(fields, k)

\* C10 (amended): the header is split at its spaces first and each field is
\* checked for UTF-8 only when the decoder comes to it.  Invalid UTF-8 in the
\* leading literal gives MissingLiteral; in the protocol field it gives Utf8;
\* in an address or port field of a TCP4/TCP6 header it gives Utf8 when the
\* fields before it are well-formed (an earlier malformed field gives that
\* field's error); in fields after UNKNOWN or after the destination port it
\* is not looked at and the header is accepted.  Utf8 is returned only for
\* the first field that is not valid UTF-8, and a TCP4/TCP6 header is
\* accepted only if its six fields are valid UTF-8.
C10_Utf8PerField ==
    (DecodedV1 /\ HasHeaderLine(sent.bytes)) =>
        Utf8PerField(SplitFields(HeaderLine(sent.bytes)), result)

\* a header whose destination address is not valid UTF-8, after a good
\* source address, has been refused with Utf8
C10_Witness ==
    /\ DecodedV1
    /\ HasHeaderLine(sent.bytes)
    /\ TcpLine(SplitFields(HeaderLine(sent.bytes)))
    /\ GoodField(SplitFields(HeaderLine(sent.bytes)), 3)
    /\ BadText(SplitFields(HeaderLine(sent.bytes)), 4)
    /\ result.error = "Utf8"


\* ---- C11 ----

\* the shape every returned header has
HeaderShape(h) ==
    /\ h.source_addr.some <=> h.proto \in {"Tcp4", "Tcp6"}
    /\ h.dest_addr.some <=> h.source_addr.some
    /\ ~h.source_addr.some => (h.proto = "Unknown" /\ h.command = "Unspec")

\* the family nibble of a v2 header's byte 13 says Unspec (0) or Unix (3)
NoAddressFamily(bytes) ==
    Len(bytes) >= V2HeaderLen /\ bytes[14] \div 16 \in {0, 3}

\* C11: every header decode_v1, decode_v2 or decode_any returns has a source
\* address if and only if its protocol is TCP4 or TCP6, a destination
\* address exactly when it has a source address, and protocol Unknown with
\* command Unspec whenever the addresses are absent; a v2 header of family
\* Unspec or Unix yields that whatever its command nibble.
C11_HeaderShape ==
    (Decoded /\ result.kind = "Ok") =>
        /\ HeaderShape(result.header)
        /\ (DecodedV2 /\ NoAddressFamily(sent.bytes)) =>
               result.header = [version |-> 2, proto |-> "Unknown",
                                command |-> "Unspec", source_addr |-> NoneAddr,
                                dest_addr |-> NoneAddr]

\* a v2 header of family Unix with command Proxy has been decoded
C11_Witness ==
    /\ DecodedV2
    /\ st = "Open"
    /\ NoAddressFamily(sent.bytes)
    /\ sent.bytes[14] \div 16 = 3
    /\ sent.bytes[13] % 16 = 1
    /\ ~result.header.source_addr.some


\* ---- C12 ----

\* this step is a call of ProxyListener::accept
AcceptCall == st = "Idle" /\ st' # "Idle"

\* what a call of accept() leaves behind
AcceptOutcome ==
    /\ accepts' = 1
    /\ decodes' <= 1
    /\ st' = "AcceptErr" =>
           (decodes' = 0 /\ pos' = 0 /\ sent' = sent /\ herr' = "Io")
    /\ decodes' = 1 => result' = Decode(version, sent'.bytes, 0)
    /\ (decodes' = 1 /\ result'.kind = "Err") =>
           /\ st' = "Failed"
           /\ herr' = IntoHyperError(result'.error)
           /\ ~peer_addr'.some
    /\ st' = "Open" <=> (decodes' = 1 /\ result'.kind = "Ok")

\* C12: each call of ProxyListener::accept makes exactly one accept on the
\* wrapped listener and at most one header decode, in the mode stored at
\* construction; if the wrapped accept fails its error is returned and no
\* byte is read; if the decode returns an error accept() returns it, with no
\* retry, no second accept and no stream; no step changes the stored mode,
\* and once the outcome is dropped nothing of it is left for the next call.
C12_OneAcceptOneDecode ==
    [][/\ version' = version
       /\ AcceptCall => AcceptOutcome
       /\ (st # "Idle" /\ st' # "Idle") =>
              (accepts' = accepts /\ decodes' = decodes /\ herr' = herr)
       /\ st' = "Idle" =>
              (accepts' = 0 /\ decodes' = 0 /\ herr' = "" /\ pos' = 0
                 /\ sent' = NoWire)]_vars

\* an accept() in mode V2 has returned the error of its one decode
C12_Witness ==
    /\ version = "V2"
    /\ st = "Failed"
    /\ accepts = 1
    /\ decodes = 1
    /\ herr = "Version"
    /\ Len(sent.bytes) > 0


\* ---- C13 ----

\* the address family protocol proto goes with
FamilyOf(proto) == IF proto = "Tcp4" THEN "V4" ELSE "V6"

\* the family of the address text f: "V4" for dotted decimal, "V6" for an
\* IPv6 spelling, "None" for neither
TextFamily(f) == ParseIpAddr(f).fam

\* the header line is "PROXY", TCP4 or TCP6, two address texts of which one
\* is of the other family, and two ports
MixedFamilies(fields) ==
    /\ TcpLine(fields)
    /\ \A j \in 3..6 : GoodField(fields, j)
    /\ \E j \in {3, 4} :
           TextFamily(fields[j]) # FamilyOf(IF fields[2] = LitTCP4 THEN "Tcp4" ELSE "Tcp6")

\* C13: whenever the v1 form is decoded into a header with protocol TCP4,
\* its source and destination are IPv4 addresses, and with protocol TCP6
\* both are IPv6 addresses; a line whose protocol field and address fields
\* are of different families is refused with BadSourceAddress or
\* BadDestAddress.
C13_FamiliesAgree ==
    /\ (DecodedV1 /\ result.kind = "Ok"
          /\ result.header.proto \in {"Tcp4", "Tcp6"}) =>
           /\ result.header.source_addr.ip.fam = FamilyOf(result.header.proto)
           /\ result.header.dest_addr.ip.fam = FamilyOf(result.header.proto)
    /\ (DecodedV1 /\ HasHeaderLine(sent.bytes)
          /\ MixedFamilies(SplitFields(HeaderLine(sent.bytes)))) =>
           /\ result.kind = "Err"
           /\ result.error \in {"BadSourceAddress", "BadDestAddress"}

====
